---- MODULE Spec2Model ----
(***************************************************************************)
(* Model of the financial projection engine and of the portfolio analyzer  *)
(* of the advisory front end (FinancialPlanning.tsx, PortfolioAnalyzer.tsx)*)
(* with the navigation of App.tsx and the completion requests of api.ts.   *)
(*                                                                         *)
(* A JavaScript Number is modelled as an exact rational n/d in lowest      *)
(* terms, or one of the three IEEE special values NaN, +Infinity and       *)
(* -Infinity.  Rounding of finite values is not modelled; the special      *)
(* values and the way they arise (x/0, 0/0, Inf-Inf, 0*Inf) are.  A finite *)
(* value outside the exact range is carried as inexact, with rational      *)
(* bounds where the operations that produced it give them.                 *)
(* Text typed into a form field is a sequence of one-character strings.    *)
(***************************************************************************)
EXTENDS Integers, Sequences, FiniteSets, Bags, TLC

VARIABLES
  retirementData,   \* FinancialPlanning: retirement calculator inputs
  goalData,         \* FinancialPlanning: goal calculator inputs
  compoundData,     \* FinancialPlanning: compound interest calculator inputs
  holdings,         \* PortfolioAnalyzer: the list of holdings
  newHolding,       \* PortfolioAnalyzer: the add-holding form (three strings)
  showAddForm,      \* PortfolioAnalyzer: whether the add-holding form is open
  activeTab,        \* App: the view that is mounted
  activeCalculator, \* FinancialPlanning: the calculator that is shown
  aiAdvice,         \* FinancialPlanning: the advice text, or null
  loadingAdvice,    \* FinancialPlanning: an advice request is being awaited
  advicePending,    \* completion requests whose continuation will act on FinancialPlanning
  aiAnalysis,       \* PortfolioAnalyzer: the analysis text, or null
  loadingAnalysis,  \* PortfolioAnalyzer: an analysis request is being awaited
  analysisPending,  \* completion requests whose continuation will act on PortfolioAnalyzer
  searchTerm,       \* StockResearch: the text of the search field
  loading,          \* StockResearch: a search is being awaited
  stockData,        \* StockResearch: the analysed stock, or null
  allStocks,        \* StockResearch: the stock list of the last successful refresh
  error,            \* StockResearch: the message of the error banner, or null
  lastUpdated,      \* StockResearch: the time of the last successful refresh, or null
  stockCalls,       \* StockResearch: timers and awaited refreshes, each with what its closure holds
  marketData,       \* MarketDashboard: the market overview, or null
  marketLoading,    \* MarketDashboard: its loading flag
  marketLastUpdated,\* MarketDashboard: the time of the last overview, or null
  marketCalls       \* MarketDashboard: awaited fetchMarketData invocations and where each stands

planningVars == <<retirementData, goalData, compoundData>>
portfolioVars == <<holdings, newHolding, showAddForm>>
viewVars == <<activeTab, activeCalculator>>
adviceVars == <<aiAdvice, loadingAdvice, advicePending>>
analysisVars == <<aiAnalysis, loadingAnalysis, analysisPending>>
networkVars == <<adviceVars, analysisVars>>
researchVars == <<searchTerm, loading, stockData, allStocks, error, lastUpdated, stockCalls>>
marketVars == <<marketData, marketLoading, marketLastUpdated, marketCalls>>

vars == <<planningVars, portfolioVars, viewVars, networkVars, researchVars, marketVars>>

----------------------------------------------------------------------------
(* JavaScript numbers *)

Abs(i) == IF i < 0 THEN -i ELSE i

Sign(i) == IF i < 0 THEN -1 ELSE IF i > 0 THEN 1 ELSE 0

RECURSIVE GCD(_, _)
GCD(a, b) == IF b = 0 THEN a ELSE GCD(b, a % b)

\* the largest magnitude a numerator or denominator is carried to (2^31 - 1)
IntMax == 32767 * 65536 + 65535

\* a * b and a + b stay within IntMax
MulFits(a, b) == a = 0 \/ b = 0 \/ Abs(a) <= IntMax \div Abs(b)

AddFits(a, b) == Abs(a) <= IntMax - Abs(b)

NaN == [k |-> "nan", n |-> 0, d |-> 1]

PosInf == [k |-> "inf", n |-> 1, d |-> 1]

NegInf == [k |-> "inf", n |-> -1, d |-> 1]

\* a finite value the model does not carry exactly (an irrational root, or a
\* rational outside IntMax): known to be finite, otherwise unknown
Inexact == [k |-> "irr", n |-> 0, d |-> 1]

\* a value of which nothing is known (it may be NaN or infinite)
Unknown == [k |-> "unk", n |-> 0, d |-> 1]

\* the signed infinity with the sign of s (s # 0)
Inf(s) == IF s < 0 THEN NegInf ELSE PosInf

\* the finite number n/d (d # 0), in lowest terms with a positive denominator
Fin(n, d) ==
  LET g == GCD(Abs(n), Abs(d))
      s == IF d < 0 THEN -1 ELSE 1
  IN  [k |-> "fin", n |-> (s * n) \div g, d |-> (s * d) \div g]

Int2Num(i) == Fin(i, 1)

IsNaN(x) == x.k = "nan"

IsFinite(x) == x.k = "fin"

\* the model carries x exactly
IsExact(x) == x.k \in {"fin", "nan", "inf"}

\* a finite value the model does not carry exactly, known to lie strictly
\* between the finite numbers lo and hi
Between(lo, hi) == [k |-> "irr", n |-> 0, d |-> 1, lo |-> lo, hi |-> hi]

HasBounds(x) == x.k = "irr" /\ "lo" \in DOMAIN x

\* x is finite and the model has bounds for it
Bounded(x) == x.k = "fin" \/ HasBounds(x)

Lo(x) == IF x.k = "fin" THEN x ELSE x.lo

Hi(x) == IF x.k = "fin" THEN x ELSE x.hi

\* the value strictly between lo and hi, if both were carried exactly
Enclose(lo, hi) == IF lo.k = "fin" /\ hi.k = "fin" THEN Between(lo, hi) ELSE Inexact

\* x + y, x * y and x < y for finite x and y that are carried exactly
NAddFin(x, y) ==
  IF /\ MulFits(x.n, y.d) /\ MulFits(y.n, x.d) /\ MulFits(x.d, y.d)
     /\ AddFits(x.n * y.d, y.n * x.d)
  THEN Fin(x.n * y.d + y.n * x.d, x.d * y.d)
  ELSE Inexact

NMulFin(x, y) ==
  IF MulFits(x.n, y.n) /\ MulFits(x.d, y.d)
  THEN Fin(x.n * y.n, x.d * y.d)
  ELSE Inexact

LtFinKnown(x, y) ==
  (MulFits(x.n, y.d) /\ MulFits(y.n, x.d)) \/ (x.n \div x.d) # (y.n \div y.d)

NLtFin(x, y) ==
  IF MulFits(x.n, y.d) /\ MulFits(y.n, x.d) THEN x.n * y.d < y.n * x.d
  ELSE CASE (x.n \div x.d) # (y.n \div y.d) -> (x.n \div x.d) < (y.n \div y.d)

\* c * r for an exact finite c # 0 and a bounded r
Scale(c, r) ==
  IF c.n > 0 THEN Enclose(NMulFin(c, r.lo), NMulFin(c, r.hi))
  ELSE Enclose(NMulFin(c, r.hi), NMulFin(c, r.lo))

\* x + y
NAdd(x, y) ==
  IF IsNaN(x) \/ IsNaN(y) THEN NaN
  ELSE IF x.k = "unk" \/ y.k = "unk" THEN Unknown
  ELSE IF x.k = "inf" /\ y.k = "inf" THEN (IF x.n = y.n THEN x ELSE NaN)
  ELSE IF x.k = "inf" THEN x
  ELSE IF y.k = "inf" THEN y
  ELSE IF x.k = "irr" \/ y.k = "irr"
       THEN (IF Bounded(x) /\ Bounded(y)
             THEN Enclose(NAddFin(Lo(x), Lo(y)), NAddFin(Hi(x), Hi(y)))
             ELSE Inexact)
  ELSE NAddFin(x, y)

\* -x
NNeg(x) ==
  IF x.k \in {"fin", "inf"} THEN [x EXCEPT !.n = -x.n]
  ELSE IF HasBounds(x)
       THEN Between([x.hi EXCEPT !.n = -x.hi.n], [x.lo EXCEPT !.n = -x.lo.n])
  ELSE x

\* x - y
NSub(x, y) == NAdd(x, NNeg(y))

\* x * y
NMul(x, y) ==
  IF IsNaN(x) \/ IsNaN(y) THEN NaN
  ELSE IF x.k = "unk" \/ y.k = "unk" THEN Unknown
  ELSE IF x.k = "inf" \/ y.k = "inf"
       THEN (IF x.k = "irr" \/ y.k = "irr" THEN Unknown
             ELSE IF x.n = 0 \/ y.n = 0 THEN NaN
             ELSE Inf(Sign(x.n) * Sign(y.n)))
  ELSE IF (x.k = "fin" /\ x.n = 0) \/ (y.k = "fin" /\ y.n = 0) THEN Int2Num(0)
  ELSE IF x.k = "irr" \/ y.k = "irr"
       THEN (IF x.k = "fin" /\ HasBounds(y) THEN Scale(x, y)
             ELSE IF y.k = "fin" /\ HasBounds(x) THEN Scale(y, x)
             ELSE IF HasBounds(x) /\ HasBounds(y) /\ x.lo.n >= 0 /\ y.lo.n >= 0
                  THEN Enclose(NMulFin(x.lo, y.lo), NMulFin(x.hi, y.hi))
             ELSE Inexact)
  ELSE NMulFin(x, y)

\* x / y   (a zero divisor is +0)
NDiv(x, y) ==
  IF IsNaN(x) \/ IsNaN(y) THEN NaN
  ELSE IF x.k \in {"unk", "irr"} \/ y.k \in {"unk", "irr"}
       THEN (IF x.k = "irr" /\ y.k = "fin" /\ y.n # 0
             THEN (IF HasBounds(x) THEN Scale(Fin(y.d, y.n), x) ELSE Inexact)
             ELSE Unknown)
  ELSE IF x.k = "inf" /\ y.k = "inf" THEN NaN
  ELSE IF x.k = "inf" THEN Inf(x.n * (IF y.n < 0 THEN -1 ELSE 1))
  ELSE IF y.k = "inf" THEN Int2Num(0)
  ELSE IF y.n = 0 THEN (IF x.n = 0 THEN NaN ELSE Inf(x.n))
  ELSE IF MulFits(x.n, y.d) /\ MulFits(x.d, y.n)
       THEN Fin(x.n * y.d, x.d * y.n)
       ELSE Inexact

\* the bounds of x and y, one of them not carried exactly, tell x < y from x > y
Separated(x, y) ==
  /\ x.k = "irr" \/ y.k = "irr"
  /\ Bounded(x) /\ Bounded(y)
  /\ LtFinKnown(Lo(y), Hi(x)) /\ LtFinKnown(Lo(x), Hi(y))
  /\ ~NLtFin(Lo(y), Hi(x)) \/ ~NLtFin(Lo(x), Hi(y))

\* the model can tell whether x < y
Comparable(x, y) == (IsExact(x) /\ IsExact(y)) \/ Separated(x, y)

\* x < y; every comparison with NaN is false (x and y are Comparable)
NLt(x, y) ==
  /\ ~IsNaN(x) /\ ~IsNaN(y)
  /\ CASE x.k = "inf" /\ IsExact(y) -> x.n < 0 /\ y # x
       [] x.k = "fin" /\ y.k = "inf" -> y.n > 0
       [] x.k = "fin" /\ y.k = "fin" -> NLtFin(x, y)
       [] Separated(x, y) -> ~NLtFin(Lo(y), Hi(x))

\* x === y, x <= y, x > y, x >= y
NEq(x, y) == ~IsNaN(x) /\ ~IsNaN(y) /\ ~NLt(x, y) /\ ~NLt(y, x)

NLe(x, y) == NLt(x, y) \/ NEq(x, y)

NGt(x, y) == NLt(y, x)

NGe(x, y) == NLe(y, x)

\* Math.min(x, y), Math.max(x, y)
MathMin(x, y) == IF IsNaN(x) \/ IsNaN(y) THEN NaN ELSE IF NLt(y, x) THEN y ELSE x

MathMax(x, y) == IF IsNaN(x) \/ IsNaN(y) THEN NaN ELSE IF NLt(x, y) THEN y ELSE x

\* Math.ceil(x)
MathCeil(x) ==
  IF x.k = "irr" THEN Inexact
  ELSE IF ~IsFinite(x) THEN x
  ELSE Int2Num(-((-x.n) \div x.d))

NSquare(x) == NMul(x, x)

\* b^e for an integer e >= 0, by repeated squaring
RECURSIVE IntPow(_, _)
IntPow(b, e) ==
  IF e = 0 THEN Int2Num(1)
  ELSE IF e % 2 = 0 THEN NSquare(IntPow(b, e \div 2))
  ELSE NMul(IntPow(b, e - 1), b)

\* i^e for naturals, or IntMax once it leaves the carried range
RECURSIVE NatPow(_, _)
NatPow(i, e) ==
  IF e = 0 THEN 1
  ELSE LET r == NatPow(i, e - 1) IN IF MulFits(r, i) THEN r * i ELSE IntMax

\* the natural u with u^q = i, or 0 when the search finds none
NatRoot(i, q) ==
  LET us == {u \in 1..40 : NatPow(u, q) = i}
  IN  IF us = {} THEN 0 ELSE CHOOSE u \in us : TRUE

\* bounds of b^e for b > 0, b # 1 and a fractional e > 0 with whole part w and
\* fractional part f: b^e = b^w * b^f, and b^f lies strictly between min(1, b)
\* and 1 + f * (b - 1) (Bernoulli's inequality)
PowBounds(b, e) ==
  IF e.n < 0 THEN Inexact
  ELSE LET f == Fin(e.n % e.d, e.d)
           low == IF b.n > b.d THEN Int2Num(1) ELSE b
           high == NAdd(Int2Num(1), NMul(f, NSub(b, Int2Num(1))))
       IN  NMul(IntPow(b, e.n \div e.d), Enclose(low, high))

\* Math.pow(b, e)
MathPow(b, e) ==
  IF IsFinite(e) /\ e.n = 0 THEN Int2Num(1)
  ELSE IF IsNaN(b) \/ IsNaN(e) THEN NaN
  ELSE IF ~IsFinite(b) \/ ~IsFinite(e) THEN Unknown
  ELSE IF e.d = 1
       THEN (IF e.n > 0 THEN IntPow(b, e.n) ELSE NDiv(Int2Num(1), IntPow(b, -e.n)))
  ELSE IF b.n < 0 THEN NaN
  ELSE IF b.n = 0 THEN (IF e.n > 0 THEN Int2Num(0) ELSE PosInf)
  ELSE LET u == NatRoot(b.n, e.d)
           v == NatRoot(b.d, e.d)
       IN  IF u = 0 \/ v = 0 THEN PowBounds(b, e)
           ELSE IF e.n > 0 THEN IntPow(Fin(u, v), e.n)
           ELSE NDiv(Int2Num(1), IntPow(Fin(u, v), -e.n))

----------------------------------------------------------------------------
(* Text of form fields *)

Digit == {"0", "1", "2", "3", "4", "5", "6", "7", "8", "9"}

DigitVal(c) ==
  CASE c = "0" -> 0 [] c = "1" -> 1 [] c = "2" -> 2 [] c = "3" -> 3 [] c = "4" -> 4
    [] c = "5" -> 5 [] c = "6" -> 6 [] c = "7" -> 7 [] c = "8" -> 8 [] c = "9" -> 9

RECURSIVE DigitsValue(_, _)
DigitsValue(s, acc) ==
  IF s = <<>> THEN acc ELSE DigitsValue(Tail(s), acc * 10 + DigitVal(Head(s)))

RECURSIVE Pow10(_)
Pow10(i) == IF i = 0 THEN 1 ELSE 10 * Pow10(i - 1)

\* the value of a decimal numeral [-]digits[.digits]; NaN for any other text
ParseDecimal(s) ==
  LET neg  == s # <<>> /\ Head(s) = "-"
      body == IF neg THEN Tail(s) ELSE s
      dots == {i \in 1..Len(body) : body[i] = "."}
      dot  == IF dots = {} THEN Len(body) + 1 ELSE CHOOSE i \in dots : TRUE
      ip   == SubSeq(body, 1, dot - 1)
      fp   == SubSeq(body, dot + 1, Len(body))
      ok   == /\ Cardinality(dots) <= 1
              /\ Len(ip) + Len(fp) > 0
              /\ \A i \in 1..Len(ip) : ip[i] \in Digit
              /\ \A i \in 1..Len(fp) : fp[i] \in Digit
      mag  == DigitsValue(ip, 0) * Pow10(Len(fp)) + DigitsValue(fp, 0)
  IN  IF ~ok THEN NaN
      ELSE Fin(IF neg THEN -mag ELSE mag, Pow10(Len(fp)))

\* Number(text): the empty string converts to 0
Number(s) == IF s = <<>> THEN Int2Num(0) ELSE ParseDecimal(s)

\* parseFloat(text): the empty string converts to NaN
parseFloat(s) == ParseDecimal(s)

\* the decimal text of an integer, as a number input delivers it
RECURSIVE NatText(_)
NatText(i) ==
  LET c == CHOOSE ch \in Digit : DigitVal(ch) = i % 10
  IN  IF i < 10 THEN <<c>> ELSE Append(NatText(i \div 10), c)

IntText(i) == IF i < 0 THEN <<"-">> \o NatText(-i) ELSE NatText(i)

----------------------------------------------------------------------------
(* FinancialPlanning: the retirement calculator *)

\* yearsToRetirement, monthsToRetirement, monthlyReturn
retirement_yearsToRetirement(r) == NSub(r.retirementAge, r.currentAge)

retirement_monthsToRetirement(r) == NMul(retirement_yearsToRetirement(r), Int2Num(12))

retirement_monthlyReturn(r) == NDiv(NDiv(r.expectedReturn, Int2Num(100)), Int2Num(12))

\* future value of current savings
retirement_futureCurrentSavings(r) ==
  NMul(r.currentSavings,
       MathPow(NAdd(Int2Num(1), NDiv(r.expectedReturn, Int2Num(100))),
               retirement_yearsToRetirement(r)))

\* future value of monthly contributions
retirement_futureContributions(r) ==
  NMul(r.monthlyContribution,
       NDiv(NSub(MathPow(NAdd(Int2Num(1), retirement_monthlyReturn(r)),
                         retirement_monthsToRetirement(r)),
                 Int2Num(1)),
            retirement_monthlyReturn(r)))

retirement_totalAtRetirement(r) ==
  NAdd(retirement_futureCurrentSavings(r), retirement_futureContributions(r))

retirement_neededCapital(r) ==
  NMul(NDiv(NMul(r.currentIncome, r.replaceIncome), Int2Num(100)), Int2Num(25))

calculateRetirement(r) ==
  LET totalAtRetirement == retirement_totalAtRetirement(r)
      neededCapital == retirement_neededCapital(r)
  IN  [totalAtRetirement |-> totalAtRetirement,
       neededCapital |-> neededCapital,
       surplus |-> NSub(totalAtRetirement, neededCapital),
       monthlyIncomeAtRetirement |->
         NDiv(NMul(totalAtRetirement, Fin(4, 100)), Int2Num(12))]

\* const retirementResults = calculateRetirement(), evaluated on every render
retirementResults == calculateRetirement(retirementData)

\* the heading of the surplus card
surplusLabel(surplus) == IF NGe(surplus, Int2Num(0)) THEN "Surplus" ELSE "Shortfall"

----------------------------------------------------------------------------
(* FinancialPlanning: the goal calculator *)

RiskTolerance == {"conservative", "moderate", "aggressive"}

goal_remaining(g) == NSub(g.targetAmount, g.currentAmount)

goal_monthsToGoal_floor(g) ==
  LET q == NDiv(goal_remaining(g), g.monthlyContribution)
  IN  IF ~IsFinite(q) THEN q ELSE Int2Num(q.n \div q.d)

goal_monthsToGoal(g) == MathCeil(NDiv(goal_remaining(g), g.monthlyContribution))

allocations_skewed ==
  [conservative |-> [stocks |-> 30, bonds |-> 60, cash |-> 10],
   moderate     |-> [stocks |-> 60, bonds |-> 30, cash |-> 10],
   aggressive   |-> [stocks |-> 80, bonds |-> 15, cash |-> 10]]

allocations ==
  [conservative |-> [stocks |-> 30, bonds |-> 60, cash |-> 10],
   moderate     |-> [stocks |-> 60, bonds |-> 30, cash |-> 10],
   aggressive   |-> [stocks |-> 80, bonds |-> 15, cash |-> 5]]

goal_recommendedAllocation(g) == allocations[g.riskTolerance]

returnRates == [conservative |-> 4, moderate |-> 7, aggressive |-> 10]

goal_expectedReturn(g) == Int2Num(returnRates[g.riskTolerance])

goal_monthlyReturn(g) == NDiv(NDiv(goal_expectedReturn(g), Int2Num(100)), Int2Num(12))

\* future value calculation with compound interest
goal_futureValue(g) ==
  NAdd(NMul(g.currentAmount,
            MathPow(NAdd(Int2Num(1), NDiv(goal_expectedReturn(g), Int2Num(100))),
                    NDiv(g.timeHorizon, Int2Num(12)))),
       NMul(g.monthlyContribution,
            NDiv(NSub(MathPow(NAdd(Int2Num(1), goal_monthlyReturn(g)), g.timeHorizon),
                      Int2Num(1)),
                 goal_monthlyReturn(g))))

goal_totalContributions(g) == NMul(g.monthlyContribution, g.timeHorizon)

goal_expectedReturns(g) ==
  NSub(NSub(goal_futureValue(g), g.currentAmount),
       NMul(g.monthlyContribution, g.timeHorizon))

calculateGoal(g) ==
  [monthsToGoal |-> goal_monthsToGoal(g),
   totalContributions |-> goal_totalContributions(g),
   expectedReturns |-> goal_expectedReturns(g),
   recommendedAllocation |-> goal_recommendedAllocation(g)]

\* const goalResults = calculateGoal(), evaluated on every render
goalResults == calculateGoal(goalData)

----------------------------------------------------------------------------
(* FinancialPlanning: the compound interest calculator *)

compound_monthlyReturn(c) == NDiv(NDiv(c.annualReturn, Int2Num(100)), Int2Num(12))

compound_months(c) == NMul(c.years, Int2Num(12))

\* future value of principal
compound_futurePrincipal(c) ==
  NMul(c.principal,
       MathPow(NAdd(Int2Num(1), NDiv(c.annualReturn, Int2Num(100))), c.years))

\* future value of monthly contributions
compound_futureContributions(c) ==
  NMul(c.monthlyContribution,
       NDiv(NSub(MathPow(NAdd(Int2Num(1), compound_monthlyReturn(c)), compound_months(c)),
                 Int2Num(1)),
            compound_monthlyReturn(c)))

compound_totalValue(c) ==
  NAdd(compound_futurePrincipal(c), compound_futureContributions(c))

compound_totalContributions_noPrincipal(c) ==
  NMul(c.monthlyContribution, compound_months(c))

compound_totalContributions(c) ==
  NAdd(c.principal, NMul(c.monthlyContribution, compound_months(c)))

compound_totalEarnings(c) == NSub(compound_totalValue(c), compound_totalContributions(c))

calculateCompound_guarded(c) ==
  LET totalValue == compound_totalValue(c)
      totalContributions == compound_totalContributions(c)
  IN  [totalValue |-> totalValue,
       totalContributions |-> totalContributions,
       totalEarnings |-> NSub(totalValue, totalContributions),
       returnMultiple |->
         IF NEq(totalContributions, Int2Num(0)) THEN Int2Num(0)
         ELSE NDiv(totalValue, totalContributions)]

calculateCompound(c) ==
  LET totalValue == compound_totalValue(c)
      totalContributions == compound_totalContributions(c)
  IN  [totalValue |-> totalValue,
       totalContributions |-> totalContributions,
       totalEarnings |-> NSub(totalValue, totalContributions),
       returnMultiple |-> NDiv(totalValue, totalContributions)]

compoundResults_whileLoading ==
  IF loadingAdvice
  THEN calculateCompound([principal |-> Int2Num(10000), monthlyContribution |-> Int2Num(500),
                          annualReturn |-> Int2Num(8), years |-> Int2Num(20)])
  ELSE calculateCompound(compoundData)

\* const compoundResults = calculateCompound(), evaluated on every render
compoundResults == calculateCompound(compoundData)

----------------------------------------------------------------------------
(* PortfolioAnalyzer *)

Lower == <<"a", "b", "c", "d", "e", "f", "g", "h", "i", "j", "k", "l", "m",
           "n", "o", "p", "q", "r", "s", "t", "u", "v", "w", "x", "y", "z">>

Upper == <<"A", "B", "C", "D", "E", "F", "G", "H", "I", "J", "K", "L", "M",
           "N", "O", "P", "Q", "R", "S", "T", "U", "V", "W", "X", "Y", "Z">>

\* String.prototype.toUpperCase
toUpperCase(s) ==
  [i \in 1..Len(s) |->
     IF \E j \in 1..Len(Lower) : Lower[j] = s[i]
     THEN Upper[CHOOSE j \in 1..Len(Lower) : Lower[j] = s[i]]
     ELSE s[i]]

AAPL == <<"A", "A", "P", "L">>
MSFT == <<"M", "S", "F", "T">>
GOOGL == <<"G", "O", "O", "G", "L">>
TSLA == <<"T", "S", "L", "A">>
AMZN == <<"A", "M", "Z", "N">>
NVDA == <<"N", "V", "D", "A">>

\* the holdings the component is constructed with
DefaultHoldings ==
  << [symbol |-> AAPL,  shares |-> Int2Num(50), avgPrice |-> Int2Num(150),
      currentPrice |-> Fin(19253, 100)],
     [symbol |-> MSFT,  shares |-> Int2Num(25), avgPrice |-> Int2Num(300),
      currentPrice |-> Fin(41824, 100)],
     [symbol |-> GOOGL, shares |-> Int2Num(15), avgPrice |-> Int2Num(100),
      currentPrice |-> Fin(13821, 100)] >>

EmptyForm == [symbol |-> <<>>, shares |-> <<>>, avgPrice |-> <<>>]

\* the value of a text state that holds no text
null == "null"

\* mock current price (in production, fetch from API)
mockCurrentPrices ==
  (AAPL :> Fin(19253, 100)) @@ (MSFT :> Fin(41824, 100)) @@ (GOOGL :> Fin(13821, 100)) @@
  (TSLA :> Fin(23845, 100)) @@ (AMZN :> Fin(15589, 100)) @@ (NVDA :> Fin(72248, 100))

\* the two sums of calculateMetrics' forEach loop
RECURSIVE SumValue_avgPrice(_)
SumValue_avgPrice(hs) ==
  IF hs = <<>> THEN Int2Num(0)
  ELSE NAdd(SumValue_avgPrice(SubSeq(hs, 1, Len(hs) - 1)),
            NMul(hs[Len(hs)].shares, hs[Len(hs)].avgPrice))

RECURSIVE SumValue(_)
SumValue(hs) ==
  IF hs = <<>> THEN Int2Num(0)
  ELSE NAdd(SumValue(SubSeq(hs, 1, Len(hs) - 1)),
            NMul(hs[Len(hs)].shares, hs[Len(hs)].currentPrice))

RECURSIVE SumCost(_)
SumCost(hs) ==
  IF hs = <<>> THEN Int2Num(0)
  ELSE NAdd(SumCost(SubSeq(hs, 1, Len(hs) - 1)),
            NMul(hs[Len(hs)].shares, hs[Len(hs)].avgPrice))

totalGainLossPercent(totalGainLoss, totalCost) ==
  IF NGt(totalCost, Int2Num(0))
  THEN NMul(NDiv(totalGainLoss, totalCost), Int2Num(100))
  ELSE Int2Num(0)

\* simple risk and diversification scoring (0-100)
riskScore_noFloor(percent) ==
  MathMin(Int2Num(100), NAdd(Int2Num(50), NMul(percent, Int2Num(2))))

riskScore(percent) ==
  MathMin(Int2Num(100),
          MathMax(Int2Num(0), NAdd(Int2Num(50), NMul(percent, Int2Num(2)))))

diversificationScore_noCap(hs) == NMul(Int2Num(Len(hs)), Int2Num(20))

diversificationScore(hs) == MathMin(Int2Num(100), NMul(Int2Num(Len(hs)), Int2Num(20)))

calculateMetrics(hs) ==
  LET totalValue == SumValue(hs)
      totalCost == SumCost(hs)
      totalGainLoss == NSub(totalValue, totalCost)
      percent == totalGainLossPercent(totalGainLoss, totalCost)
  IN  [totalValue |-> totalValue,
       totalGainLoss |-> totalGainLoss,
       totalGainLossPercent |-> percent,
       riskScore |-> riskScore(percent),
       diversificationScore |-> diversificationScore(hs)]

\* const metrics = calculateMetrics(), evaluated on every render
metrics == calculateMetrics(holdings)

\* the rows of the allocation card
getPortfolioAllocation(hs) ==
  LET totalValue == calculateMetrics(hs).totalValue
  IN  [i \in 1..Len(hs) |->
         [symbol |-> hs[i].symbol, shares |-> hs[i].shares,
          avgPrice |-> hs[i].avgPrice, currentPrice |-> hs[i].currentPrice,
          value |-> NMul(hs[i].shares, hs[i].currentPrice),
          allocation |->
            NMul(NDiv(NMul(hs[i].shares, hs[i].currentPrice), totalValue),
                 Int2Num(100))]]

\* const allocation = getPortfolioAllocation(), evaluated on every render
allocation == getPortfolioAllocation(holdings)

----------------------------------------------------------------------------
(* Bounds and the texts the form fields deliver *)

MaxHoldings == 6

MaxYears == 1

MaxAmount == 6

SymbolTexts == {<<>>, <<"t", "s", "l", "a">>}

SharesTexts == {<<>>, <<"1", "0">>, <<"-", "1", "0">>}

AvgPriceTexts == {<<>>, <<"1", "0", "0", "0">>}

CurrentAgeTexts == {IntText(30), IntText(31)}

RetirementAgeTexts == {IntText(a) : a \in 30..(30 + MaxYears)} \cup {IntText(65)}

SavingsTexts == {<<>>, IntText(1000), IntText(50000)}

ContributionTexts == {<<>>, IntText(100), IntText(1000)}

ReturnTexts == {<<>>, IntText(0), IntText(7), IntText(1200), IntText(-1200)}

ReplaceIncomeTexts == {IntText(80), IntText(100)}

TargetAmountTexts == {IntText(i) : i \in 0..MaxAmount} \cup {IntText(100000)}

CurrentAmountTexts == {IntText(i) : i \in 0..MaxAmount} \cup {IntText(20000)}

GoalContributionTexts ==
  {<<>>, IntText(1), IntText(2), IntText(3), <<"0", ".", "5">>, IntText(-2), IntText(2000)}

TimeHorizonTexts == {IntText(1), IntText(36), <<"0", ".", "5">>}

PrincipalTexts == {<<>>, IntText(1), IntText(1000), IntText(10000)}

CompoundContributionTexts == {<<>>, IntText(1), IntText(500)}

AnnualReturnTexts ==
  {<<>>, IntText(0), IntText(8), IntText(600), IntText(1200), IntText(-1200), IntText(37200)}

YearsTexts == {IntText(y) : y \in (-1)..MaxYears} \cup {<<"0", ".", "0", "5">>, IntText(20)}

\* the records the component is constructed with
DefaultRetirement ==
  [currentAge |-> Int2Num(30), retirementAge |-> Int2Num(65),
   currentSavings |-> Int2Num(50000), monthlyContribution |-> Int2Num(1000),
   expectedReturn |-> Int2Num(7), currentIncome |-> Int2Num(75000),
   replaceIncome |-> Int2Num(80)]

DefaultGoal ==
  [targetAmount |-> Int2Num(100000), currentAmount |-> Int2Num(20000),
   monthlyContribution |-> Int2Num(2000), timeHorizon |-> Int2Num(36),
   riskTolerance |-> "moderate"]

DefaultCompound ==
  [principal |-> Int2Num(10000), monthlyContribution |-> Int2Num(500),
   annualReturn |-> Int2Num(8), years |-> Int2Num(20)]

----------------------------------------------------------------------------
(* FinancialPlanning: the onChange handlers of the three calculators *)

SetCurrentAge ==
  /\ activeTab = "planning" /\ activeCalculator = "retirement"
  /\ \E t \in CurrentAgeTexts :
       retirementData' = [retirementData EXCEPT !.currentAge = Number(t)]
  /\ UNCHANGED <<goalData, compoundData, portfolioVars>>
  /\ UNCHANGED <<viewVars, networkVars, researchVars, marketVars>>

SetRetirementAge ==
  /\ activeTab = "planning" /\ activeCalculator = "retirement"
  /\ \E t \in RetirementAgeTexts :
       retirementData' = [retirementData EXCEPT !.retirementAge = Number(t)]
  /\ UNCHANGED <<goalData, compoundData, portfolioVars>>
  /\ UNCHANGED <<viewVars, networkVars, researchVars, marketVars>>

SetCurrentSavings ==
  /\ activeTab = "planning" /\ activeCalculator = "retirement"
  /\ \E t \in SavingsTexts :
       retirementData' = [retirementData EXCEPT !.currentSavings = Number(t)]
  /\ UNCHANGED <<goalData, compoundData, portfolioVars>>
  /\ UNCHANGED <<viewVars, networkVars, researchVars, marketVars>>

SetRetirementContribution ==
  /\ activeTab = "planning" /\ activeCalculator = "retirement"
  /\ \E t \in ContributionTexts :
       retirementData' = [retirementData EXCEPT !.monthlyContribution = Number(t)]
  /\ UNCHANGED <<goalData, compoundData, portfolioVars>>
  /\ UNCHANGED <<viewVars, networkVars, researchVars, marketVars>>

SetExpectedReturn ==
  /\ activeTab = "planning" /\ activeCalculator = "retirement"
  /\ \E t \in ReturnTexts :
       retirementData' = [retirementData EXCEPT !.expectedReturn = Number(t)]
  /\ UNCHANGED <<goalData, compoundData, portfolioVars>>
  /\ UNCHANGED <<viewVars, networkVars, researchVars, marketVars>>

SetReplaceIncome ==
  /\ activeTab = "planning" /\ activeCalculator = "retirement"
  /\ \E t \in ReplaceIncomeTexts :
       retirementData' = [retirementData EXCEPT !.replaceIncome = Number(t)]
  /\ UNCHANGED <<goalData, compoundData, portfolioVars>>
  /\ UNCHANGED <<viewVars, networkVars, researchVars, marketVars>>

SetTargetAmount ==
  /\ activeTab = "planning" /\ activeCalculator = "goal"
  /\ \E t \in TargetAmountTexts :
       goalData' = [goalData EXCEPT !.targetAmount = Number(t)]
  /\ UNCHANGED <<retirementData, compoundData, portfolioVars>>
  /\ UNCHANGED <<viewVars, networkVars, researchVars, marketVars>>

SetCurrentAmount ==
  /\ activeTab = "planning" /\ activeCalculator = "goal"
  /\ \E t \in CurrentAmountTexts :
       goalData' = [goalData EXCEPT !.currentAmount = Number(t)]
  /\ UNCHANGED <<retirementData, compoundData, portfolioVars>>
  /\ UNCHANGED <<viewVars, networkVars, researchVars, marketVars>>

SetGoalContribution ==
  /\ activeTab = "planning" /\ activeCalculator = "goal"
  /\ \E t \in GoalContributionTexts :
       goalData' = [goalData EXCEPT !.monthlyContribution = Number(t)]
  /\ UNCHANGED <<retirementData, compoundData, portfolioVars>>
  /\ UNCHANGED <<viewVars, networkVars, researchVars, marketVars>>

SetTimeHorizon ==
  /\ activeTab = "planning" /\ activeCalculator = "goal"
  /\ \E t \in TimeHorizonTexts :
       goalData' = [goalData EXCEPT !.timeHorizon = Number(t)]
  /\ UNCHANGED <<retirementData, compoundData, portfolioVars>>
  /\ UNCHANGED <<viewVars, networkVars, researchVars, marketVars>>

SetRiskTolerance ==
  /\ activeTab = "planning" /\ activeCalculator = "goal"
  /\ \E v \in RiskTolerance :
       goalData' = [goalData EXCEPT !.riskTolerance = v]
  /\ UNCHANGED <<retirementData, compoundData, portfolioVars>>
  /\ UNCHANGED <<viewVars, networkVars, researchVars, marketVars>>

SetPrincipal ==
  /\ activeTab = "planning" /\ activeCalculator = "compound"
  /\ \E t \in PrincipalTexts :
       compoundData' = [compoundData EXCEPT !.principal = Number(t)]
  /\ UNCHANGED <<retirementData, goalData, portfolioVars>>
  /\ UNCHANGED <<viewVars, networkVars, researchVars, marketVars>>

SetCompoundContribution ==
  /\ activeTab = "planning" /\ activeCalculator = "compound"
  /\ \E t \in CompoundContributionTexts :
       compoundData' = [compoundData EXCEPT !.monthlyContribution = Number(t)]
  /\ UNCHANGED <<retirementData, goalData, portfolioVars>>
  /\ UNCHANGED <<viewVars, networkVars, researchVars, marketVars>>

SetAnnualReturn ==
  /\ activeTab = "planning" /\ activeCalculator = "compound"
  /\ \E t \in AnnualReturnTexts :
       compoundData' = [compoundData EXCEPT !.annualReturn = Number(t)]
  /\ UNCHANGED <<retirementData, goalData, portfolioVars>>
  /\ UNCHANGED <<viewVars, networkVars, researchVars, marketVars>>

SetYears ==
  /\ activeTab = "planning" /\ activeCalculator = "compound"
  /\ \E t \in YearsTexts :
       compoundData' = [compoundData EXCEPT !.years = Number(t)]
  /\ UNCHANGED <<retirementData, goalData, portfolioVars>>
  /\ UNCHANGED <<viewVars, networkVars, researchVars, marketVars>>

----------------------------------------------------------------------------
(* PortfolioAnalyzer: the handlers *)

OpenAddForm ==
  /\ activeTab = "portfolio"
  /\ showAddForm' = TRUE
  /\ UNCHANGED <<planningVars, holdings, newHolding>>
  /\ UNCHANGED <<viewVars, networkVars, researchVars, marketVars>>

CancelAddForm ==
  /\ activeTab = "portfolio"
  /\ showAddForm
  /\ showAddForm' = FALSE
  /\ UNCHANGED <<planningVars, holdings, newHolding>>
  /\ UNCHANGED <<viewVars, networkVars, researchVars, marketVars>>

SetSymbol ==
  /\ activeTab = "portfolio"
  /\ showAddForm
  /\ \E t \in SymbolTexts : newHolding' = [newHolding EXCEPT !.symbol = toUpperCase(t)]
  /\ UNCHANGED <<planningVars, holdings, showAddForm>>
  /\ UNCHANGED <<viewVars, networkVars, researchVars, marketVars>>

SetShares ==
  /\ activeTab = "portfolio"
  /\ showAddForm
  /\ \E t \in SharesTexts : newHolding' = [newHolding EXCEPT !.shares = t]
  /\ UNCHANGED <<planningVars, holdings, showAddForm>>
  /\ UNCHANGED <<viewVars, networkVars, researchVars, marketVars>>

SetAvgPrice ==
  /\ activeTab = "portfolio"
  /\ showAddForm
  /\ \E t \in AvgPriceTexts : newHolding' = [newHolding EXCEPT !.avgPrice = t]
  /\ UNCHANGED <<planningVars, holdings, showAddForm>>
  /\ UNCHANGED <<viewVars, networkVars, researchVars, marketVars>>

\* the holding addHolding builds from the form
FormHolding_asTyped(f) ==
  LET sym == f.symbol
      currentPrice ==
        IF sym \in DOMAIN mockCurrentPrices THEN mockCurrentPrices[sym]
        ELSE parseFloat(f.avgPrice)
  IN  [symbol |-> sym, shares |-> parseFloat(f.shares),
       avgPrice |-> parseFloat(f.avgPrice), currentPrice |-> currentPrice]

FormHolding(f) ==
  LET sym == toUpperCase(f.symbol)
      currentPrice ==
        IF sym \in DOMAIN mockCurrentPrices THEN mockCurrentPrices[sym]
        ELSE parseFloat(f.avgPrice)
  IN  [symbol |-> sym, shares |-> parseFloat(f.shares),
       avgPrice |-> parseFloat(f.avgPrice), currentPrice |-> currentPrice]

addHolding ==
  /\ activeTab = "portfolio"
  /\ showAddForm
  /\ Len(holdings) < MaxHoldings
  /\ IF newHolding.symbol = <<>> \/ newHolding.shares = <<>> \/ newHolding.avgPrice = <<>>
     THEN UNCHANGED <<holdings, newHolding, showAddForm>>
     ELSE /\ holdings' = Append(holdings, FormHolding(newHolding))
          /\ newHolding' = EmptyForm
          /\ showAddForm' = FALSE
  /\ UNCHANGED planningVars
  /\ UNCHANGED <<viewVars, networkVars, researchVars, marketVars>>

removeHolding_invalidating ==
  /\ activeTab = "portfolio"
  /\ \E index \in 1..Len(holdings) :
       holdings' = [i \in 1..(Len(holdings) - 1) |->
                      IF i < index THEN holdings[i] ELSE holdings[i + 1]]
  /\ aiAnalysis' = null
  /\ UNCHANGED <<planningVars, newHolding, showAddForm>>
  /\ UNCHANGED <<viewVars, adviceVars, loadingAnalysis, analysisPending, researchVars, marketVars>>

removeHolding ==
  /\ activeTab = "portfolio"
  /\ \E index \in 1..Len(holdings) :
       holdings' = [i \in 1..(Len(holdings) - 1) |->
                      IF i < index THEN holdings[i] ELSE holdings[i + 1]]
  /\ UNCHANGED <<planningVars, newHolding, showAddForm>>
  /\ UNCHANGED <<viewVars, networkVars, researchVars, marketVars>>

----------------------------------------------------------------------------
(* apiService *)

\* a settled promise
Fulfilled(v) == [state |-> "fulfilled", value |-> v]

Rejected(e) == [state |-> "rejected", value |-> e]

\* the search request asks for count=10 results
MaxResults == 10

\* how the search endpoint answers: fetch rejects, a status that is not OK, a
\* body without web, or a body whose web.results has n results (a result is
\* named by its rank)
SearchResponses ==
  {[kind |-> k, results |-> <<>>] : k \in {"network_error", "not_ok", "no_web"}}
    \cup {[kind |-> "web", results |-> [i \in 1..n |-> i]] : n \in 0..MaxResults}

\* the try block of searchMarketData
searchMarketData_try(response) ==
  IF response.kind = "network_error" THEN Rejected("TypeError")
  ELSE IF response.kind = "not_ok" THEN Rejected("Brave Search API error")
  ELSE IF response.kind = "no_web" THEN Fulfilled(<<>>)
  ELSE Fulfilled(response.results)

searchMarketData_rethrowing(response) == searchMarketData_try(response)

\* apiService.searchMarketData: the catch block returns []
searchMarketData(response) ==
  LET try == searchMarketData_try(response)
  IN  IF try.state = "rejected" THEN Fulfilled(<<>>) ELSE try

\* how the completion endpoint answers: fetch rejects, a status that is not OK,
\* a body with no choices, a first choice with empty content, or a first choice
\* with content
Responses == {"network_error", "not_ok", "no_choices", "no_content", "content"}

\* the try block of getAIAnalysis
getAIAnalysis_try(response) ==
  IF response = "network_error" THEN Rejected("TypeError")
  ELSE IF response = "not_ok" THEN Rejected("GROQ API error")
  ELSE IF response \in {"no_choices", "no_content"}
       THEN Fulfilled("Unable to generate analysis at this time.")
  ELSE Fulfilled("content")

getAIAnalysis_rethrowing(response) == getAIAnalysis_try(response)

\* apiService.getAIAnalysis: the content of the first choice, or the fallback
\* the catch block returns
getAIAnalysis(response) ==
  LET try == getAIAnalysis_try(response)
  IN  IF try.state = "rejected"
      THEN Fulfilled("Unable to generate analysis at this time. Please try again later.")
      ELSE try

\* apiService.getFinancialPlanningAdvice, getPortfolioAnalysis: return await
\* this.getAIAnalysis(prompt)
getFinancialPlanningAdvice(response) == getAIAnalysis(response)

getPortfolioAnalysis(response) == getAIAnalysis(response)

\* Array.prototype.slice(0, n)
slice(a, n) == SubSeq(a, 1, IF n < Len(a) THEN n ELSE Len(a))

\* getKenyanMarketOverview and getNSEStockData up to the completion request:
\* the first n search results, which the prompt is built from
relevantData(searchResults, n) ==
  IF searchResults.state = "rejected" THEN searchResults
  ELSE Fulfilled(slice(searchResults.value, n))

\* ... and from the completion request on
overview(relevant, analysis) ==
  IF analysis.state = "rejected" THEN analysis
  ELSE Fulfilled([searchResults |-> relevant, analysis |-> analysis.value])

\* apiService.getKenyanMarketOverview, for the answers of the two endpoints
getKenyanMarketOverview(search, completion) ==
  LET relevant == relevantData(searchMarketData(search), 8)
  IN  IF relevant.state = "rejected" THEN relevant
      ELSE overview(relevant.value, getAIAnalysis(completion))

\* apiService.getNSEStockData, for the answers of the two endpoints
getNSEStockData(search, completion) ==
  LET relevant == relevantData(searchMarketData(search), 5)
  IN  IF relevant.state = "rejected" THEN relevant
      ELSE overview(relevant.value, getAIAnalysis(completion))

-----------------------------------------------------------------------------
(* FinancialPlanning and PortfolioAnalyzer: the two request handlers *)

getPersonalizedAdvice_ungated ==
  /\ activeTab = "planning" /\ activeCalculator = "advisor"
  /\ advicePending < 2
  /\ loadingAdvice' = TRUE
  /\ advicePending' = advicePending + 1
  /\ UNCHANGED <<aiAdvice, analysisVars, planningVars, portfolioVars, viewVars, researchVars, marketVars>>

\* FinancialPlanning: the advice button (disabled while loadingAdvice), up to the await
getPersonalizedAdvice ==
  /\ activeTab = "planning" /\ activeCalculator = "advisor"
  /\ ~loadingAdvice
  /\ loadingAdvice' = TRUE
  /\ advicePending' = advicePending + 1
  /\ UNCHANGED <<aiAdvice, analysisVars, planningVars, portfolioVars, viewVars, researchVars, marketVars>>

\* FinancialPlanning: the awaited advice request settles
AdviceSettles ==
  /\ advicePending > 0
  /\ \E response \in Responses :
       LET advice == getFinancialPlanningAdvice(response)
       IN  aiAdvice' = IF advice.state = "fulfilled" THEN advice.value
                       ELSE "Unable to generate advice at this time. Please try again later."
  /\ loadingAdvice' = FALSE
  /\ advicePending' = advicePending - 1
  /\ UNCHANGED <<analysisVars, planningVars, portfolioVars, viewVars, researchVars, marketVars>>

\* the most timers and requests a component awaits at a time
MaxInFlight == 2

\* PortfolioAnalyzer: getAIPortfolioAnalysis up to the await
getAIPortfolioAnalysis ==
  /\ activeTab = "portfolio"
  /\ Len(holdings) = 0 \/ analysisPending < MaxInFlight
  /\ IF Len(holdings) = 0
     THEN UNCHANGED analysisVars
     ELSE /\ loadingAnalysis' = TRUE
          /\ analysisPending' = analysisPending + 1
          /\ UNCHANGED aiAnalysis
  /\ UNCHANGED <<adviceVars, planningVars, portfolioVars, viewVars, researchVars, marketVars>>

\* PortfolioAnalyzer: the analysis button, disabled while loadingAnalysis or with
\* no holdings
AnalyzePortfolioClick ==
  /\ ~(loadingAnalysis \/ Len(holdings) = 0)
  /\ getAIPortfolioAnalysis

\* PortfolioAnalyzer: the awaited analysis request settles
AnalysisSettles ==
  /\ analysisPending > 0
  /\ \E response \in Responses :
       LET analysis == getPortfolioAnalysis(response)
       IN  aiAnalysis' = IF analysis.state = "fulfilled" THEN analysis.value
                         ELSE "Unable to generate analysis at this time. Please try again later."
  /\ loadingAnalysis' = FALSE
  /\ analysisPending' = analysisPending - 1
  /\ UNCHANGED <<adviceVars, planningVars, portfolioVars, viewVars, researchVars, marketVars>>

----------------------------------------------------------------------------
(* StockResearch *)

\* a state that holds no object, and one that holds v
none == <<>>

Some(v) == <<v>>

SCOM == <<"S", "C", "O", "M">>
KCB == <<"K", "C", "B">>

\* an NSEStock (Name and Volume are only printed)
Stock(ticker, price, change) ==
  [Ticker |-> ticker, Price |-> Int2Num(price), Change |-> Int2Num(change)]

\* the stock lists the NSE endpoint delivers: one with upper-case tickers, and a
\* later one with new prices, a lower-case ticker and KCB no longer listed
Listings ==
  {<<Stock(SCOM, 10, 1), Stock(KCB, 20, 0)>>,
   <<Stock(<<"s", "c", "o", "m">>, 12, 3)>>}

\* how the NSE endpoint answers: fetch rejects, a status that is not OK, or a list
NSEResponses ==
  {[kind |-> k, stocks |-> <<>>] : k \in {"network_error", "not_ok"}}
    \cup {[kind |-> "ok", stocks |-> l] : l \in Listings}

\* the texts typed into the search field
SearchTexts == {<<>>, <<" ">>, <<"s", "c", "o", "m">>, KCB}

\* new Date(): time is not modelled
Date == "date"

LoadFailure == <<"Failed to load NSE data. Please check your connection.">>

SearchFailure == <<"Failed to fetch stock data. Please try again.">>

\* `Stock symbol "${searchTerm.toUpperCase()}" not found in NSE listings.`
NotFound(term) == <<"Stock symbol", toUpperCase(term), "not found in NSE listings.">>

\* String.prototype.trim
RECURSIVE trimStart(_)
trimStart(s) == IF s # <<>> /\ Head(s) = " " THEN trimStart(Tail(s)) ELSE s

RECURSIVE trimEnd(_)
trimEnd(s) ==
  IF s # <<>> /\ s[Len(s)] = " " THEN trimEnd(SubSeq(s, 1, Len(s) - 1)) ELSE s

trim(s) == trimEnd(trimStart(s))

\* the try block of fetchAllStocks up to setAllStocks
fetchAllStocks_try(response) ==
  IF response.kind = "network_error" THEN Rejected("TypeError")
  ELSE IF response.kind = "not_ok" THEN Rejected("Failed to fetch NSE data")
  ELSE Fulfilled(response.stocks)

\* allStocks.find(stock => stock.Ticker.toUpperCase() === searchTerm.toUpperCase())
find(stocks, term) ==
  LET hits == {i \in 1..Len(stocks) : toUpperCase(stocks[i].Ticker) = toUpperCase(term)}
  IN  IF hits = {} THEN none
      ELSE Some(stocks[CHOOSE i \in hits : \A j \in hits : i <= j])

\* Math.abs(stock.Change)
AbsChange(stock) == IF stock.Change.n < 0 THEN NNeg(stock.Change) ELSE stock.Change

\* Array.prototype.sort((a, b) => Math.abs(b.Change) - Math.abs(a.Change)): a
\* stable sort, the largest move first
RECURSIVE sortByMove(_)
sortByMove(stocks) ==
  IF stocks = <<>> THEN <<>>
  ELSE LET rest == sortByMove(Tail(stocks))
           ahead == {i \in 0..Len(rest) :
                       \A j \in 1..i : NLt(AbsChange(Head(stocks)), AbsChange(rest[j]))}
           k == CHOOSE i \in ahead : \A j \in ahead : j <= i
       IN  SubSeq(rest, 1, k) \o <<Head(stocks)>> \o SubSeq(rest, k + 1, Len(rest))

Moves(stock) == stock.Change # Int2Num(0)

getTopMovers(stocks) == slice(sortByMove(SelectSeq(stocks, Moves)), 6)

\* an entry of stockCalls: a timer set by a top mover card or an awaited refresh,
\* with the searchTerm and allStocks of the render whose handleSearch it runs
\* (a refresh started by the mount or by the Refresh button runs none)
Call(op, term, stocks) == [op |-> op, searchTerm |-> term, allStocks |-> stocks]

Add(calls, call) == calls (+) SetToBag({call})

Remove(calls, call) == calls (-) SetToBag({call})

\* the search field: onChange
setSearchTerm ==
  /\ activeTab = "research"
  /\ \E t \in SearchTexts : searchTerm' = toUpperCase(t)
  /\ UNCHANGED <<loading, stockData, allStocks, error, lastUpdated, stockCalls>>
  /\ UNCHANGED <<planningVars, portfolioVars, viewVars, networkVars, marketVars>>

handleSearch_begin_untrimmed(term, stocks, calls) ==
  IF term = <<>>
  THEN /\ stockCalls' = calls
       /\ UNCHANGED <<loading, error>>
  ELSE /\ loading' = TRUE
       /\ error' = none
       /\ stockCalls' = Add(calls, Call("handleSearch", term, stocks))

\* handleSearch of the render with this searchTerm and allStocks, up to the await
\* of fetchAllStocks; calls are the other entries of stockCalls
handleSearch_begin(term, stocks, calls) ==
  IF trim(term) = <<>>
  THEN /\ stockCalls' = calls
       /\ UNCHANGED <<loading, error>>
  ELSE /\ loading' = TRUE
       /\ error' = none
       /\ stockCalls' = Add(calls, Call("handleSearch", term, stocks))

\* the Enter key in the search field, or the Analyze button (disabled while loading)
handleSearch ==
  /\ activeTab = "research"
  /\ \E key \in {"Enter", "Analyze"} : key = "Analyze" => ~loading
  /\ trim(searchTerm) = <<>> \/ BagCardinality(stockCalls) < MaxInFlight
  /\ handleSearch_begin(searchTerm, allStocks, stockCalls)
  /\ UNCHANGED <<searchTerm, stockData, allStocks, lastUpdated>>
  /\ UNCHANGED <<planningVars, portfolioVars, viewVars, networkVars, marketVars>>

\* the refresh awaited by a handleSearch settles: the rest of fetchAllStocks,
\* then the rest of handleSearch, which reads the searchTerm and allStocks of
\* its own render
SearchSettlesWith(call, response) ==
  /\ activeTab = "research"
  /\ BagIn(call, stockCalls) /\ call.op = "handleSearch"
  /\ LET stocks == fetchAllStocks_try(response)
         foundStock == find(call.allStocks, call.searchTerm)
     IN  /\ allStocks' = IF stocks.state = "fulfilled" THEN stocks.value ELSE allStocks
         /\ lastUpdated' = IF stocks.state = "fulfilled" THEN Some(Date) ELSE lastUpdated
         /\ IF foundStock = none
            THEN /\ error' = NotFound(call.searchTerm)
                 /\ UNCHANGED stockData
            ELSE /\ stockData' = Some([stock |-> foundStock[1]])
                 /\ error' = IF stocks.state = "fulfilled" THEN error ELSE LoadFailure
  /\ loading' = FALSE
  /\ stockCalls' = Remove(stockCalls, call)
  /\ UNCHANGED searchTerm
  /\ UNCHANGED <<planningVars, portfolioVars, viewVars, networkVars, marketVars>>

SearchSettles ==
  \E call \in BagToSet(stockCalls) : \E response \in NSEResponses :
    SearchSettlesWith(call, response)

\* the Refresh button, shown once lastUpdated is set
Refresh ==
  /\ activeTab = "research"
  /\ lastUpdated # none
  /\ BagCardinality(stockCalls) < MaxInFlight
  /\ stockCalls' = Add(stockCalls, Call("fetchAllStocks", <<>>, <<>>))
  /\ UNCHANGED <<searchTerm, loading, stockData, allStocks, error, lastUpdated>>
  /\ UNCHANGED <<planningVars, portfolioVars, viewVars, networkVars, marketVars>>

\* a refresh started by the mount or by the Refresh button settles
fetchAllStocksSettlesWith(call, response) ==
  /\ activeTab = "research"
  /\ BagIn(call, stockCalls) /\ call.op = "fetchAllStocks"
  /\ LET stocks == fetchAllStocks_try(response)
     IN  IF stocks.state = "fulfilled"
         THEN /\ allStocks' = stocks.value
              /\ lastUpdated' = Some(Date)
              /\ UNCHANGED error
         ELSE /\ error' = LoadFailure
              /\ UNCHANGED <<allStocks, lastUpdated>>
  /\ stockCalls' = Remove(stockCalls, call)
  /\ UNCHANGED <<searchTerm, loading, stockData>>
  /\ UNCHANGED <<planningVars, portfolioVars, viewVars, networkVars, marketVars>>

fetchAllStocksSettles ==
  \E call \in BagToSet(stockCalls) : \E response \in NSEResponses :
    fetchAllStocksSettlesWith(call, response)

\* a Top Market Movers card (shown while there is no result, no search is awaited
\* and the list is not empty): setSearchTerm(stock.Ticker) and a timer that will
\* run the handleSearch of the render that showed the card
TopMoverClicked(stock) ==
  /\ activeTab = "research"
  /\ stockData = none /\ ~loading /\ Len(allStocks) > 0
  /\ \E i \in 1..Len(getTopMovers(allStocks)) : getTopMovers(allStocks)[i] = stock
  /\ BagCardinality(stockCalls) < MaxInFlight
  /\ searchTerm' = stock.Ticker
  /\ stockCalls' = Add(stockCalls, Call("timer", searchTerm, allStocks))
  /\ UNCHANGED <<loading, stockData, allStocks, error, lastUpdated>>
  /\ UNCHANGED <<planningVars, portfolioVars, viewVars, networkVars, marketVars>>

TopMoverClick ==
  \E i \in 1..Len(allStocks) : TopMoverClicked(allStocks[i])

\* 100 ms later the timer runs handleSearch
TimerFiresFor(call) ==
  /\ activeTab = "research"
  /\ BagIn(call, stockCalls) /\ call.op = "timer"
  /\ handleSearch_begin(call.searchTerm, call.allStocks, Remove(stockCalls, call))
  /\ UNCHANGED <<searchTerm, stockData, allStocks, lastUpdated>>
  /\ UNCHANGED <<planningVars, portfolioVars, viewVars, networkVars, marketVars>>

TimerFires == \E call \in BagToSet(stockCalls) : TimerFiresFor(call)

----------------------------------------------------------------------------
(* MarketDashboard *)

\* the most overviews the dashboard is followed through
MaxRefreshes == 2

\* an entry of marketCalls: an awaited fetchMarketData, which stands at the
\* search request or at the completion request, whose prompt lists relevantData
MarketCall(request, relevant) == [request |-> request, relevantData |-> relevant]

\* the refresh button (disabled while loading), up to the await
fetchMarketData ==
  /\ activeTab = "market"
  /\ ~marketLoading
  /\ marketLastUpdated = none \/ marketLastUpdated[1] < MaxRefreshes
  /\ marketLoading' = TRUE
  /\ marketCalls' = Add(marketCalls, MarketCall("search", <<>>))
  /\ UNCHANGED <<marketData, marketLastUpdated>>
  /\ UNCHANGED <<planningVars, portfolioVars, viewVars, networkVars, researchVars>>

\* the search request of getKenyanMarketOverview settles and the completion
\* request is issued
MarketSearchSettlesWith(call, response) ==
  /\ activeTab = "market"
  /\ BagIn(call, marketCalls) /\ call.request = "search"
  /\ LET relevant == relevantData(searchMarketData(response), 8)
     IN  IF relevant.state = "fulfilled"
         THEN /\ marketCalls' =
                   Add(Remove(marketCalls, call), MarketCall("completion", relevant.value))
              /\ UNCHANGED marketLoading
         ELSE /\ marketCalls' = Remove(marketCalls, call)
              /\ marketLoading' = FALSE
  /\ UNCHANGED <<marketData, marketLastUpdated>>
  /\ UNCHANGED <<planningVars, portfolioVars, viewVars, networkVars, researchVars>>

MarketSearchSettles ==
  \E call \in BagToSet(marketCalls) : \E response \in SearchResponses :
    MarketSearchSettlesWith(call, response)

\* the completion request settles: the rest of fetchMarketData
MarketCompletionSettlesWith(call, response) ==
  /\ activeTab = "market"
  /\ BagIn(call, marketCalls) /\ call.request = "completion"
  /\ LET data == overview(call.relevantData, getAIAnalysis(response))
     IN  IF data.state = "fulfilled"
         THEN /\ marketData' = Some(data.value)
              /\ marketLastUpdated' =
                   Some(IF marketLastUpdated = none THEN 1 ELSE marketLastUpdated[1] + 1)
         ELSE UNCHANGED <<marketData, marketLastUpdated>>
  /\ marketLoading' = FALSE
  /\ marketCalls' = Remove(marketCalls, call)
  /\ UNCHANGED <<planningVars, portfolioVars, viewVars, networkVars, researchVars>>

MarketCompletionSettles ==
  \E call \in BagToSet(marketCalls) : \E response \in Responses :
    MarketCompletionSettlesWith(call, response)

----------------------------------------------------------------------------
(* App and FinancialPlanning: navigation *)

Tabs == {"home", "research", "portfolio", "planning", "market"}

Calculators == {"retirement", "goal", "compound", "advisor"}

\* the state a component is constructed with when it is mounted
Mounted ==
  /\ retirementData = DefaultRetirement
  /\ goalData = DefaultGoal
  /\ compoundData = DefaultCompound
  /\ activeCalculator = "retirement"
  /\ aiAdvice = null
  /\ loadingAdvice = FALSE
  /\ advicePending = 0
  /\ holdings = DefaultHoldings
  /\ newHolding = EmptyForm
  /\ showAddForm = FALSE
  /\ aiAnalysis = null
  /\ loadingAnalysis = FALSE
  /\ analysisPending = 0
  /\ searchTerm = <<>>
  /\ loading = FALSE
  /\ stockData = none
  /\ allStocks = <<>>
  /\ error = none
  /\ lastUpdated = none
  /\ stockCalls = EmptyBag
  /\ marketData = none
  /\ marketLoading = FALSE
  /\ marketLastUpdated = none
  /\ marketCalls = EmptyBag

\* App: a navigation button.  Another tab unmounts the current view, whose state
\* is dropped and whose awaited requests no longer act on any state, and mounts
\* the new one, whose effect (StockResearch: fetchAllStocks, MarketDashboard:
\* fetchMarketData) runs; the current tab changes nothing.
setActiveTab ==
  \E tab \in Tabs :
    IF tab = activeTab THEN UNCHANGED vars
    ELSE /\ activeTab' = tab
         /\ retirementData' = DefaultRetirement
         /\ goalData' = DefaultGoal
         /\ compoundData' = DefaultCompound
         /\ activeCalculator' = "retirement"
         /\ aiAdvice' = null
         /\ loadingAdvice' = FALSE
         /\ advicePending' = 0
         /\ holdings' = DefaultHoldings
         /\ newHolding' = EmptyForm
         /\ showAddForm' = FALSE
         /\ aiAnalysis' = null
         /\ loadingAnalysis' = FALSE
         /\ analysisPending' = 0
         /\ searchTerm' = <<>>
         /\ loading' = FALSE
         /\ stockData' = none
         /\ allStocks' = <<>>
         /\ error' = none
         /\ lastUpdated' = none
         /\ stockCalls' = IF tab = "research"
                          THEN SetToBag({Call("fetchAllStocks", <<>>, <<>>)})
                          ELSE EmptyBag
         /\ marketData' = none
         /\ marketLoading' = (tab = "market")
         /\ marketLastUpdated' = none
         /\ marketCalls' = IF tab = "market"
                           THEN SetToBag({MarketCall("search", <<>>)})
                           ELSE EmptyBag

\* FinancialPlanning: a calculator navigation button
setActiveCalculator ==
  /\ activeTab = "planning"
  /\ \E calc \in Calculators : activeCalculator' = calc
  /\ UNCHANGED <<activeTab, planningVars, portfolioVars, networkVars, researchVars, marketVars>>

----------------------------------------------------------------------------
(* Specifications.  The components share no state and the three calculators *)
(* read disjoint input records, so each is checked under its own            *)
(* specification, from the state the components are constructed in.         *)

Init ==
  /\ activeTab = "home"
  /\ Mounted

\* PortfolioAnalyzer
Next ==
  \/ OpenAddForm
  \/ CancelAddForm
  \/ SetSymbol
  \/ SetShares
  \/ SetAvgPrice
  \/ addHolding
  \/ removeHolding
  \/ AnalyzePortfolioClick
  \/ AnalysisSettles
  \/ setActiveTab

Spec == Init /\ [][Next]_vars

\* FinancialPlanning, retirement calculator
NextRetirement ==
  \/ SetCurrentAge
  \/ SetRetirementAge
  \/ SetCurrentSavings
  \/ SetRetirementContribution
  \/ SetExpectedReturn
  \/ SetReplaceIncome
  \/ setActiveCalculator
  \/ getPersonalizedAdvice
  \/ AdviceSettles
  \/ setActiveTab

SpecRetirement == Init /\ [][NextRetirement]_vars

\* FinancialPlanning, goal calculator
NextGoal ==
  \/ SetTargetAmount
  \/ SetCurrentAmount
  \/ SetGoalContribution
  \/ SetTimeHorizon
  \/ SetRiskTolerance
  \/ setActiveCalculator
  \/ getPersonalizedAdvice
  \/ AdviceSettles
  \/ setActiveTab

SpecGoal == Init /\ [][NextGoal]_vars

\* FinancialPlanning, compound interest calculator
NextCompound ==
  \/ SetPrincipal
  \/ SetCompoundContribution
  \/ SetAnnualReturn
  \/ SetYears
  \/ setActiveCalculator
  \/ getPersonalizedAdvice
  \/ AdviceSettles
  \/ setActiveTab

SpecCompound == Init /\ [][NextCompound]_vars

\* StockResearch
NextResearch ==
  \/ setSearchTerm
  \/ handleSearch
  \/ SearchSettles
  \/ Refresh
  \/ fetchAllStocksSettles
  \/ TopMoverClick
  \/ TimerFires
  \/ setActiveTab

SpecResearch == Init /\ [][NextResearch]_vars

\* the requests of MarketDashboard, FinancialPlanning and PortfolioAnalyzer
NextRequests ==
  \/ fetchMarketData
  \/ MarketSearchSettles
  \/ MarketCompletionSettles
  \/ setActiveCalculator
  \/ getPersonalizedAdvice
  \/ AdviceSettles
  \/ removeHolding
  \/ AnalyzePortfolioClick
  \/ AnalysisSettles
  \/ setActiveTab

SpecRequests == Init /\ [][NextRequests]_vars

\* getAIPortfolioAnalysis and handleSearch called in every state of their
\* components, the states no button lets through included
NextHandlers ==
  \/ removeHolding
  \/ getAIPortfolioAnalysis
  \/ AnalysisSettles
  \/ setSearchTerm
  \/ handleSearch
  \/ SearchSettles
  \/ Refresh
  \/ fetchAllStocksSettles
  \/ TopMoverClick
  \/ TimerFires
  \/ setActiveTab

SpecHandlers == Init /\ [][NextHandlers]_vars

----------------------------------------------------------------------------
(* Claims about the retirement calculator (SpecRetirement) *)

\* C1: with expectedReturn = 0 and retirementAge > currentAge, totalAtRetirement
\* is not NaN and equals currentSavings + monthlyContribution * monthsToRetirement.
C1_ZeroRateTotal ==
  (NEq(retirementData.expectedReturn, Int2Num(0))
     /\ NGt(retirementData.retirementAge, retirementData.currentAge))
  => /\ ~IsNaN(retirement_totalAtRetirement(retirementData))
     /\ retirement_totalAtRetirement(retirementData) =
          NAdd(retirementData.currentSavings,
               NMul(retirementData.monthlyContribution,
                    retirement_monthsToRetirement(retirementData)))

----------------------------------------------------------------------------
(* Claims about the goal calculator (SpecGoal) *)

\* the GoalInput ranges of the data model
GoalInRange(g) ==
  /\ NGt(g.targetAmount, Int2Num(0))
  /\ NGe(g.currentAmount, Int2Num(0))
  /\ NLe(g.currentAmount, g.targetAmount)
  /\ NGt(g.monthlyContribution, Int2Num(0))

\* C2: for a GoalInput inside the data model's ranges, monthsToGoal is a whole
\* number m with m * monthlyContribution >= remaining and
\* (m - 1) * monthlyContribution < remaining, i.e. ceil(remaining / contribution).
C2_MonthsToGoalIsCeiling ==
  GoalInRange(goalData) =>
    LET m == goal_monthsToGoal(goalData)
        remaining == NSub(goalData.targetAmount, goalData.currentAmount)
    IN  /\ IsFinite(m) /\ m.d = 1
        /\ NGe(NMul(m, goalData.monthlyContribution), remaining)
        /\ NLt(NMul(NSub(m, Int2Num(1)), goalData.monthlyContribution), remaining)

\* an in-range input whose quotient 5 / 2 is rounded up to 3 months
C2_Witness ==
  /\ GoalInRange(goalData)
  /\ NSub(goalData.targetAmount, goalData.currentAmount) = Int2Num(5)
  /\ goalData.monthlyContribution = Int2Num(2)
  /\ goal_monthsToGoal(goalData) = Int2Num(3)

\* C3: with currentAmount >= targetAmount and monthlyContribution > 0 the remaining
\* amount is clamped to 0, so monthsToGoal = 0 and in particular is not negative.
C3_RemainingClamped ==
  (NGe(goalData.currentAmount, goalData.targetAmount)
     /\ NGt(goalData.monthlyContribution, Int2Num(0)))
  => goal_monthsToGoal(goalData) = Int2Num(0)

\* C9: the recommended allocation is the fixed table entry of the risk tier,
\* whatever the other inputs are, and each entry sums to 100.
C9_AllocationTable ==
  LET a == goal_recommendedAllocation(goalData)
  IN  /\ goalData.riskTolerance = "conservative" =>
           a = [stocks |-> 30, bonds |-> 60, cash |-> 10]
      /\ goalData.riskTolerance = "moderate" =>
           a = [stocks |-> 60, bonds |-> 30, cash |-> 10]
      /\ goalData.riskTolerance = "aggressive" =>
           a = [stocks |-> 80, bonds |-> 15, cash |-> 5]
      /\ a.stocks + a.bonds + a.cash = 100

\* the aggressive tier, with inputs other than the constructed ones
C9_Witness ==
  /\ goalData.riskTolerance = "aggressive"
  /\ goalData.targetAmount # DefaultGoal.targetAmount
  /\ goal_recommendedAllocation(goalData).stocks = 80

----------------------------------------------------------------------------
(* Claims about the compound interest calculator (SpecCompound) *)

\* the part of C10 that is an identity of the result record
CompoundTotals(c) ==
  /\ compound_totalContributions(c) =
       NAdd(c.principal, NMul(NMul(c.monthlyContribution, c.years), Int2Num(12)))
  /\ compound_totalEarnings(c) =
       NSub(compound_totalValue(c), compound_totalContributions(c))
  /\ c = DefaultCompound => compound_totalContributions(c) = Int2Num(130000)

\* a positive return on non-negative amounts, one of them positive, over years > 0
CompoundGrows(c) ==
  /\ NGt(c.annualReturn, Int2Num(0))
  /\ NGt(c.years, Int2Num(0))
  /\ NGe(c.principal, Int2Num(0))
  /\ NGe(c.monthlyContribution, Int2Num(0))
  /\ NGt(c.principal, Int2Num(0)) \/ NGt(c.monthlyContribution, Int2Num(0))

----------------------------------------------------------------------------
(* Claims about the portfolio analyzer (Spec) *)

\* C4: every holding in the list has a non-empty symbol, shares > 0, avgPrice > 0
\* and currentPrice > 0.
C4_HoldingsValid ==
  \A i \in 1..Len(holdings) :
    /\ holdings[i].symbol # <<>>
    /\ NGt(holdings[i].shares, Int2Num(0))
    /\ NGt(holdings[i].avgPrice, Int2Num(0))
    /\ NGt(holdings[i].currentPrice, Int2Num(0))

\* the sum of shares * price over the list, taken from the first holding on
RECURSIVE Total(_, _)
Total(hs, price) ==
  IF hs = <<>> THEN Int2Num(0)
  ELSE NAdd(NMul(Head(hs).shares, Head(hs)[price]), Total(Tail(hs), price))

\* C5: totalValue is the sum of shares * currentPrice, totalGainLoss is totalValue
\* minus the sum of shares * avgPrice, the percentage is totalGainLoss / totalCost * 100
\* when the cost is positive; the constructed list gives 22155.65, 5655.65 over a cost
\* of 16500, and 34.28 percent to two decimals.
C5_MetricsTotals ==
  LET value == Total(holdings, "currentPrice")
      cost == Total(holdings, "avgPrice")
      m == metrics
  IN  /\ m.totalValue = value
      /\ m.totalGainLoss = NSub(value, cost)
      /\ NGt(cost, Int2Num(0)) =>
           m.totalGainLossPercent = NDiv(NMul(NSub(value, cost), Int2Num(100)), cost)
      /\ holdings = DefaultHoldings =>
           /\ m.totalValue = Fin(2215565, 100)
           /\ cost = Int2Num(16500)
           /\ m.totalGainLoss = Fin(565565, 100)
           /\ NGe(m.totalGainLossPercent, Fin(34275, 1000))
           /\ NLt(m.totalGainLossPercent, Fin(34285, 1000))

\* a list changed by addHolding and removeHolding, at a loss over a positive cost
C5_Witness ==
  /\ Len(holdings) >= 2
  /\ holdings[1].symbol = MSFT
  /\ holdings[Len(holdings)].symbol = TSLA
  /\ NGt(Total(holdings, "avgPrice"), Int2Num(0))
  /\ NLt(metrics.totalGainLossPercent, Int2Num(0))

\* C6: riskScore = clamp(50 + totalGainLossPercent * 2, 0, 100), so 0 <= riskScore <= 100.
C6_RiskScoreClamped ==
  LET m == metrics
      raw == NAdd(Int2Num(50), NMul(m.totalGainLossPercent, Int2Num(2)))
  IN  /\ m.riskScore =
           (IF NLt(raw, Int2Num(0)) THEN Int2Num(0)
            ELSE IF NGt(raw, Int2Num(100)) THEN Int2Num(100) ELSE raw)
      /\ NGe(m.riskScore, Int2Num(0))
      /\ NLe(m.riskScore, Int2Num(100))

\* a loss of more than 25 percent: the unclamped score is negative, the score is 0
C6_Witness ==
  /\ holdings # <<>>
  /\ NLt(metrics.totalGainLossPercent, Int2Num(-25))
  /\ metrics.riskScore = Int2Num(0)

\* C7: diversificationScore = clamp(number of holdings * 20, 0, 100): 0 for the empty
\* list, 20 per holding, 100 at 5 holdings and for any longer list.
C7_DiversificationScore ==
  LET m == metrics
  IN  /\ m.diversificationScore =
           (IF Len(holdings) >= 5 THEN Int2Num(100) ELSE Int2Num(Len(holdings) * 20))
      /\ holdings = <<>> => m.diversificationScore = Int2Num(0)

\* a list of more than 5 holdings, scored 100
C7_Witness ==
  /\ Len(holdings) > 5
  /\ metrics.diversificationScore = Int2Num(100)

\* C8: when the total cost is 0, calculateMetrics returns totalValue = 0,
\* totalGainLoss = 0, totalGainLossPercent = 0, riskScore = 50 and
\* diversificationScore = 0, none of them NaN or infinite.
C8_ZeroCostMetrics ==
  Total(holdings, "avgPrice") = Int2Num(0) =>
    /\ metrics.totalValue = Int2Num(0)
    /\ metrics.totalGainLoss = Int2Num(0)
    /\ metrics.totalGainLossPercent = Int2Num(0)
    /\ metrics.riskScore = Int2Num(50)
    /\ metrics.diversificationScore = Int2Num(0)

----------------------------------------------------------------------------
(* Claims about the degenerate inputs of the compound interest calculator   *)
(* (SpecCompound)                                                           *)

\* C11: with annualReturn = 0, calculateCompound yields totalValue = principal +
\* monthlyContribution * years * 12 and totalEarnings = 0, returnMultiple = 1 when
\* totalContributions > 0, and no NaN.
C11_ZeroRateCompound ==
  NEq(compoundData.annualReturn, Int2Num(0)) =>
    LET res == compoundResults
    IN  /\ ~IsNaN(res.totalValue)
        /\ res.totalValue =
             NAdd(compoundData.principal,
                  NMul(compoundData.monthlyContribution,
                       NMul(compoundData.years, Int2Num(12))))
        /\ res.totalEarnings = Int2Num(0)
        /\ NGt(res.totalContributions, Int2Num(0)) => res.returnMultiple = Int2Num(1)

\* C12: when totalContributions is 0, returnMultiple is never a finite number: it
\* is NaN or an infinity.
C12_NoFiniteMultiple ==
  LET res == compoundResults
  IN  (NEq(res.totalContributions, Int2Num(0)) /\ IsExact(res.totalValue))
        => res.returnMultiple.k \in {"nan", "inf"}

\* nothing invested (principal and contribution cleared) at a positive rate over
\* a positive number of years: the multiple is 0 / 0
C12_Witness ==
  /\ compoundData.principal = Int2Num(0)
  /\ compoundData.monthlyContribution = Int2Num(0)
  /\ NGt(compoundData.annualReturn, Int2Num(0))
  /\ NGt(compoundData.years, Int2Num(0))
  /\ compoundResults.totalValue = Int2Num(0)
  /\ IsNaN(compoundResults.returnMultiple)

----------------------------------------------------------------------------
(* Claims about the degenerate inputs of the retirement calculator          *)
(* (SpecRetirement)                                                         *)

\* C13: for retirementAge > currentAge, currentSavings >= 0 and monthlyContribution
\* >= 0, at any expectedReturn, totalAtRetirement >= futureCurrentSavings.
C13_ContributionsOnlyAdd ==
  LET total == retirement_totalAtRetirement(retirementData)
      futureCurrentSavings == retirement_futureCurrentSavings(retirementData)
  IN  (/\ NGt(retirementData.retirementAge, retirementData.currentAge)
       /\ NGe(retirementData.currentSavings, Int2Num(0))
       /\ NGe(retirementData.monthlyContribution, Int2Num(0))
       /\ IsExact(total) /\ IsExact(futureCurrentSavings))
      => NGe(total, futureCurrentSavings)

\* C14: for retirementAge <= currentAge the total is never below currentSavings and
\* the contribution term is never negative.
C14_NoNegativeHorizon ==
  LET total == retirement_totalAtRetirement(retirementData)
      futureContributions == retirement_futureContributions(retirementData)
  IN  (/\ NLe(retirementData.retirementAge, retirementData.currentAge)
       /\ IsExact(total) /\ IsExact(futureContributions))
      => /\ ~NLt(total, retirementData.currentSavings)
         /\ ~NLt(futureContributions, Int2Num(0))

----------------------------------------------------------------------------
(* Claims about the degenerate inputs of the goal calculator (SpecGoal) *)

\* C15: for monthlyContribution <= 0, monthsToGoal is never a finite negative
\* number and never NaN.
C15_NoNegativeMonths ==
  LET monthsToGoal == goalResults.monthsToGoal
  IN  NLe(goalData.monthlyContribution, Int2Num(0)) =>
        /\ ~IsNaN(monthsToGoal)
        /\ ~(IsFinite(monthsToGoal) /\ monthsToGoal.n < 0)

\* a valid GoalInput: currentAmount >= 0, monthlyContribution > 0, timeHorizon > 0
ValidGoalInput(g) ==
  /\ NGe(g.currentAmount, Int2Num(0))
  /\ NGt(g.monthlyContribution, Int2Num(0))
  /\ NGt(g.timeHorizon, Int2Num(0))

\* C19: the annual return is 4, 7 or 10 percent for conservative, moderate and
\* aggressive; totalContributions = monthlyContribution * timeHorizon;
\* expectedReturns = futureValue - currentAmount - monthlyContribution * timeHorizon,
\* whatever the target amount (and so the months to the goal) is; and
\* expectedReturns >= 0 for every valid GoalInput.
C19_GoalReturns ==
  LET g == goalData
      res == goalResults
  IN  /\ goal_expectedReturn(g) =
           Int2Num(CASE g.riskTolerance = "conservative" -> 4
                     [] g.riskTolerance = "moderate" -> 7
                     [] g.riskTolerance = "aggressive" -> 10)
      /\ res.totalContributions = NMul(g.monthlyContribution, g.timeHorizon)
      /\ res.expectedReturns =
           NSub(NSub(goal_futureValue(g), g.currentAmount),
                NMul(g.monthlyContribution, g.timeHorizon))
      /\ \A t \in {0, 100000} :
           calculateGoal([g EXCEPT !.targetAmount = Int2Num(t)]).expectedReturns
             = res.expectedReturns
      /\ (ValidGoalInput(g) /\ Comparable(res.expectedReturns, Int2Num(0)))
           => NGe(res.expectedReturns, Int2Num(0))

\* C18: neededCapital = currentIncome * replaceIncome / 100 * 25, surplus =
\* totalAtRetirement - neededCapital, monthlyIncomeAtRetirement = totalAtRetirement
\* * 0.04 / 12, and the card is headed 'Shortfall' exactly when surplus is negative.
C18_SurplusAndLabel ==
  LET res == retirementResults
      total == retirement_totalAtRetirement(retirementData)
  IN  /\ res.neededCapital =
           NMul(NMul(retirementData.currentIncome,
                     NDiv(retirementData.replaceIncome, Int2Num(100))),
                Int2Num(25))
      /\ res.surplus = NSub(total, res.neededCapital)
      /\ res.monthlyIncomeAtRetirement = NDiv(NMul(total, Fin(1, 25)), Int2Num(12))
      /\ IsExact(res.surplus) =>
           (surplusLabel(res.surplus) = "Shortfall" <=> NLt(res.surplus, Int2Num(0)))

----------------------------------------------------------------------------
(* Claims about the projectors and the requests (Spec) *)

C20_Allocation ==
  LET rows == allocation
      totalValue == metrics.totalValue
  IN  /\ Len(rows) = Len(holdings)
      /\ \A i \in 1..Len(holdings) :
           /\ rows[i].value = NMul(holdings[i].shares, holdings[i].currentPrice)
           /\ rows[i].allocation =
                NMul(NDiv(rows[i].value, totalValue), Int2Num(100))
      /\ (NEq(totalValue, Int2Num(0)) /\ holdings # <<>>) =>
           \A i \in 1..Len(rows) : IsNaN(rows[i].allocation)
      /\ holdings = <<>> => rows = <<>>

-----------------------------------------------------------------------------
(* Claims about apiService and the requests of the views (SpecRequests) *)

\* the fallback texts of getAIAnalysis
AnalysisFallbacks ==
  {"Unable to generate analysis at this time.",
   "Unable to generate analysis at this time. Please try again later."}

AnalysisTexts == {"content"} \cup AnalysisFallbacks

AdviceTexts ==
  AnalysisTexts \cup {"Unable to generate advice at this time. Please try again later."}

ResultsOf(response) == IF response.kind = "web" THEN response.results ELSE <<>>

-----------------------------------------------------------------------------
(* Claims about StockResearch (SpecResearch) *)

\* there is an awaited handleSearch
SearchInFlight(calls) == \E call \in BagToSet(calls) : call.op = "handleSearch"

\* C22: when the refresh a handleSearch has awaited delivers a list with a ticker
\* equal, without regard to case, to the search term, the search ends with
\* stockData set to that stock of the delivered list and without the 'not found'
\* error.
C22_SearchUsesRefreshedList ==
  [][\A call \in BagToSet(stockCalls) : \A response \in NSEResponses :
       (/\ SearchSettlesWith(call, response)
        /\ response.kind = "ok"
        /\ find(response.stocks, call.searchTerm) # none)
       => /\ stockData' = Some([stock |-> find(response.stocks, call.searchTerm)[1]])
          /\ error' # NotFound(call.searchTerm)]_vars

\* C23: a click on the Top Market Movers card of ticker T sets a timer whose
\* handleSearch reads T as its search term (so that the search it starts, once
\* its refresh succeeds with T listed, puts the stock T into stockData).
C23_ClickAnalysesTicker ==
  [][\A i \in 1..Len(allStocks) :
       TopMoverClicked(allStocks[i]) =>
         \A call \in BagToSet(stockCalls') :
           (call.op = "timer" /\ CopiesIn(call, stockCalls') > CopiesIn(call, stockCalls))
             => toUpperCase(call.searchTerm) = toUpperCase(allStocks[i].Ticker)]_vars

\* C24: loading is true while a handleSearch awaits its refresh, and false once
\* none does.
C24_LoadingWhileSearching ==
  activeTab = "research" => (loading <=> SearchInFlight(stockCalls))

\* C30: a fetchAllStocks that succeeds leaves no load-failure error displayed, and
\* a search that sets stockData leaves no error displayed.
C30_ErrorIsLatestOutcome ==
  [][\A call \in BagToSet(stockCalls) : \A response \in NSEResponses :
       /\ (fetchAllStocksSettlesWith(call, response) \/ SearchSettlesWith(call, response))
            /\ response.kind = "ok"
          => error' # LoadFailure
       /\ (SearchSettlesWith(call, response) /\ find(call.allStocks, call.searchTerm) # none)
          => stockData' # none /\ error' = none]_vars

-----------------------------------------------------------------------------
(* Claims about the holdings list and its analysis (Spec) *)

\* the list hs without its element at position i
Without(hs, i) == SubSeq(hs, 1, i - 1) \o SubSeq(hs, i + 1, Len(hs))

\* no field of the add-holding form f is empty
Filled(f) == f.symbol # <<>> /\ f.shares # <<>> /\ f.avgPrice # <<>>

\* add-holding forms with every field filled in: symbols as typed and in upper
\* case, one of them not in the mock price table
FilledForms ==
  {[symbol |-> sym, shares |-> sh, avgPrice |-> avg] :
     sym \in {<<"t", "s", "l", "a">>, TSLA, <<"k", "c", "b">>, KCB},
     sh \in SharesTexts \ {<<>>}, avg \in AvgPriceTexts \ {<<>>}}

\* the holding that addHolding builds from the filled-in form f, as claimed:
\* symbol in upper case, currentPrice from the mock price table or else avgPrice
BuiltAsClaimed(f, h) ==
  /\ h.symbol = toUpperCase(f.symbol)
  /\ h.shares = parseFloat(f.shares)
  /\ h.avgPrice = parseFloat(f.avgPrice)
  /\ h.currentPrice = IF h.symbol \in DOMAIN mockCurrentPrices
                      THEN mockCurrentPrices[h.symbol]
                      ELSE h.avgPrice

\* C27: addHolding with the three fields filled in appends one holding (symbol in
\* upper case, currentPrice from the mock price table or else the avgPrice),
\* clears and closes the form and leaves the earlier holdings as they were, so
\* that removing the last index restores the list; with an empty field it changes
\* nothing.  removeHolding removes the holding at one index and keeps the others
\* in order.
C27_AddAndRemove ==
  [][/\ (addHolding /\ Filled(newHolding)) =>
          /\ Len(holdings') = Len(holdings) + 1
          /\ SubSeq(holdings', 1, Len(holdings)) = holdings
          /\ Without(holdings', Len(holdings')) = holdings
          /\ BuiltAsClaimed(newHolding, holdings'[Len(holdings')])
          /\ \A f \in FilledForms : BuiltAsClaimed(f, FormHolding(f))
          /\ newHolding' = EmptyForm /\ ~showAddForm'
     /\ (addHolding /\ ~Filled(newHolding)) => UNCHANGED portfolioVars
     /\ (activeTab' = activeTab /\ Len(holdings') < Len(holdings)) =>
          /\ \E index \in 1..Len(holdings) : holdings' = Without(holdings, index)
          /\ UNCHANGED <<newHolding, showAddForm>>]_vars

\* TSLA has been added after the three constructed holdings, at the price of
\* the mock table, and the form is cleared and closed
C27_Witness ==
  /\ Len(holdings) = 4
  /\ SubSeq(holdings, 1, 3) = DefaultHoldings
  /\ holdings[4].symbol = TSLA
  /\ holdings[4].currentPrice = Fin(23845, 100)
  /\ newHolding = EmptyForm /\ ~showAddForm

\* C28: the analysis shown was produced from the holdings shown.  A step that
\* changes the list therefore leaves no analysis of the earlier list on display
\* and no request for one awaited.
C28_AnalysisOfCurrentHoldings ==
  [][(activeTab' = activeTab /\ holdings' # holdings) =>
       /\ aiAnalysis' = null
       /\ analysisPending' = 0]_vars

-----------------------------------------------------------------------------
(* Claims about the early returns of the handlers (SpecHandlers) *)

\* the number of handleSearch invocations awaiting their refresh
SearchesAwaited(calls) ==
  BagCardinality([call \in {c \in BagToSet(calls) : c.op = "handleSearch"} |->
                    CopiesIn(call, calls)])

\* C29: getAIPortfolioAnalysis with no holdings issues no request and leaves
\* loadingAnalysis and aiAnalysis as they are; handleSearch with an empty or
\* whitespace-only search term, from the keyboard, the button or the timer of a
\* top-mover card, issues no fetch and leaves loading, error and stockData as
\* they are.
C29_EarlyReturns ==
  [][/\ (getAIPortfolioAnalysis /\ Len(holdings) = 0) =>
          UNCHANGED <<loadingAnalysis, aiAnalysis, analysisPending>>
     /\ (handleSearch /\ \A i \in 1..Len(searchTerm) : searchTerm[i] = " ") =>
          UNCHANGED <<loading, error, stockData, stockCalls>>
     /\ \A call \in BagToSet(stockCalls) :
          (/\ TimerFiresFor(call)
           /\ \A i \in 1..Len(call.searchTerm) : call.searchTerm[i] = " ") =>
            /\ UNCHANGED <<loading, error, stockData>>
            /\ SearchesAwaited(stockCalls') = SearchesAwaited(stockCalls)]_vars

\* the portfolio has been emptied after an analysis was requested and shown:
\* the handler runs on an empty list with loadingAnalysis and aiAnalysis set
C29_Witness ==
  /\ activeTab = "portfolio"
  /\ Len(holdings) = 0
  /\ loadingAnalysis /\ analysisPending > 0
  /\ aiAnalysis # null
====
